---------------------------- MODULE Spec2Model ----------------------------
(***************************************************************************)
(* GeneBriefer (src/gene_briefer.py): fetch a UniProt entry, extract a few *)
(* fields, build a prompt, send it to a local LLM, parse the reply as JSON *)
(* and aggregate the summaries of a batch of accessions.                   *)
(*                                                                         *)
(* Text is modelled as a sequence of one-character strings, so that        *)
(* stripping, regular-expression search, JSON decoding and JSON encoding   *)
(* are computed character by character as the Python code computes them.   *)
(* The character alphabet is: { } " : , space newline, the digits, and the *)
(* letters a b x A B.  A JSON value is                                     *)
(*   <<"num", n>>      an integer                                          *)
(*   <<"str", chars>>  a string                                            *)
(*   <<"obj", pairs>>  a dict: a sequence of <<key chars, value>> with     *)
(*                     distinct keys, in insertion order                   *)
(***************************************************************************)
EXTENDS Integers, Sequences, FiniteSets, TLC

LBRACE == "{"
RBRACE == "}"
QUOTE == "\""
COLON == ":"
COMMA == ","
SPACE == " "
NEWLINE == "\n"

\* The characters str.strip() removes and json's decoder skips between tokens.
Whitespace == {SPACE, NEWLINE}

DigitChars == <<"0", "1", "2", "3", "4", "5", "6", "7", "8", "9">>

Digits == {DigitChars[i] : i \in 1..10}

DigitVal(c) == (CHOOSE i \in 1..10 : DigitChars[i] = c) - 1

Num(n) == <<"num", n>>
Str(cs) == <<"str", cs>>
Obj(pairs) == <<"obj", pairs>>

(***************************************************************************)
(* Python dict.                                                            *)
(***************************************************************************)
DictKeys(d) == [i \in 1..Len(d) |-> d[i][1]]

DictHas(d, k) == \E i \in 1..Len(d) : d[i][1] = k

DictGet(d, k) == d[CHOOSE i \in 1..Len(d) : d[i][1] = k][2]

\* Mutant of DictSet: an existing key is deleted and inserted again, at the end.
DictSetMoveToEnd(d, k, v) ==
    Append(SelectSeq(d, LAMBDA e : e[1] # k), <<k, v>>)

\* d[k] = v: a new key is appended, an existing key keeps its position and
\* takes the new value.
DictSet(d, k, v) ==
    IF DictHas(d, k)
    THEN [i \in 1..Len(d) |-> IF d[i][1] = k THEN <<k, v>> ELSE d[i]]
    ELSE Append(d, <<k, v>>)

(***************************************************************************)
(* str.strip()                                                             *)
(***************************************************************************)
RECURSIVE LStrip(_)
LStrip(s) ==
    IF s # <<>> /\ Head(s) \in Whitespace THEN LStrip(Tail(s)) ELSE s

RECURSIVE RStrip(_)
RStrip(s) ==
    IF s # <<>> /\ s[Len(s)] \in Whitespace
    THEN RStrip(SubSeq(s, 1, Len(s) - 1))
    ELSE s

Strip(s) == RStrip(LStrip(s))

(***************************************************************************)
(* json.loads: the decoder of the standard library, restricted to the      *)
(* alphabet.  A scan returns [ok, val, pos]: pos is the index after the    *)
(* value.                                                                  *)
(***************************************************************************)
Fail == [ok |-> FALSE, val |-> <<>>, pos |-> 0]

Got(v, p) == [ok |-> TRUE, val |-> v, pos |-> p]

RECURSIVE SkipWs(_, _)
SkipWs(s, i) ==
    IF i <= Len(s) /\ s[i] \in Whitespace THEN SkipWs(s, i + 1) ELSE i

\* s[i] is the opening quote; the string ends at the next quote.  A control
\* character (the newline) inside a string is an error in strict mode.
RECURSIVE ScanString(_, _, _)
ScanString(s, i, j) ==
    IF j > Len(s) THEN Fail
    ELSE IF s[j] = QUOTE THEN Got(Str(SubSeq(s, i + 1, j - 1)), j + 1)
    ELSE IF s[j] = NEWLINE THEN Fail
    ELSE ScanString(s, i, j + 1)

\* The integer pattern 0|[1-9][0-9]*: a lone 0, or the longest run of digits
\* from i, read as a decimal integer.
RECURSIVE ScanDigits(_, _, _)
ScanDigits(s, i, n) ==
    IF i <= Len(s) /\ s[i] \in Digits
    THEN ScanDigits(s, i + 1, 10 * n + DigitVal(s[i]))
    ELSE Got(Num(n), i)

ScanNumber(s, i) ==
    IF s[i] = "0" THEN Got(Num(0), i + 1) ELSE ScanDigits(s, i, 0)

RECURSIVE ScanOnce(_, _)
RECURSIVE ScanMembers(_, _, _)

\* i is at the opening quote of a key; pairs holds the members read so far.
ScanMembers(s, i, pairs) ==
    LET key == ScanString(s, i, i + 1) IN
    IF ~key.ok THEN Fail
    ELSE
      LET c == SkipWs(s, key.pos) IN
      IF c > Len(s) \/ s[c] # COLON THEN Fail
      ELSE
        LET v == ScanOnce(s, SkipWs(s, c + 1)) IN
        IF ~v.ok THEN Fail
        ELSE
          LET more == DictSet(pairs, key.val[2], v.val)
              e == SkipWs(s, v.pos)
          IN
          IF e > Len(s) THEN Fail
          ELSE IF s[e] = RBRACE THEN Got(Obj(more), e + 1)
          ELSE IF s[e] # COMMA THEN Fail
          ELSE
            LET k == SkipWs(s, e + 1) IN
            IF k > Len(s) \/ s[k] # QUOTE THEN Fail
            ELSE ScanMembers(s, k, more)

ScanOnce(s, i) ==
    IF i > Len(s) THEN Fail
    ELSE IF s[i] = QUOTE THEN ScanString(s, i, i + 1)
    ELSE IF s[i] = LBRACE THEN
      LET k == SkipWs(s, i + 1) IN
      IF k > Len(s) THEN Fail
      ELSE IF s[k] = RBRACE THEN Got(Obj(<<>>), k + 1)
      ELSE IF s[k] # QUOTE THEN Fail
      ELSE ScanMembers(s, k, <<>>)
    ELSE IF s[i] \in Digits THEN ScanNumber(s, i)
    ELSE Fail

\* json.loads(s): one value, whitespace allowed around it, nothing else.
json_loads(s) ==
    LET r == ScanOnce(s, SkipWs(s, 1)) IN
    IF r.ok /\ SkipWs(s, r.pos) = Len(s) + 1 THEN r ELSE Fail

(***************************************************************************)
(* json.dumps(value, indent=None) and json.dumps(value, indent=2)          *)
(***************************************************************************)
RECURSIVE IntToChars(_)
IntToChars(n) ==
    IF n < 10 THEN <<DigitChars[n + 1]>>
    ELSE IntToChars(n \div 10) \o <<DigitChars[(n % 10) + 1]>>

Spaces(n) == [i \in 1..n |-> SPACE]

RECURSIVE Encode(_, _, _)
RECURSIVE EncodeItems(_, _, _, _)

\* The members of a dict from the k-th on, each "key": value, separated by
\* ", " (no indent) or by "," and a new indented line (indent).
EncodeItems(pairs, k, indent, level) ==
    IF k > Len(pairs) THEN <<>>
    ELSE
      LET sep == IF k = 1 THEN <<>>
                 ELSE IF indent < 0 THEN <<COMMA, SPACE>>
                 ELSE <<COMMA>>
          nl == IF indent < 0 THEN <<>>
                ELSE <<NEWLINE>> \o Spaces(indent * level)
      IN sep \o nl \o <<QUOTE>> \o pairs[k][1] \o <<QUOTE, COLON, SPACE>>
           \o Encode(pairs[k][2], indent, level)
           \o EncodeItems(pairs, k + 1, indent, level)

\* indent < 0 stands for indent=None.
Encode(v, indent, level) ==
    IF v[1] = "num" THEN IntToChars(v[2])
    ELSE IF v[1] = "str" THEN <<QUOTE>> \o v[2] \o <<QUOTE>>
    ELSE IF v[2] = <<>> THEN <<LBRACE, RBRACE>>
    ELSE <<LBRACE>> \o EncodeItems(v[2], 1, indent, level + 1)
           \o (IF indent < 0 THEN <<>>
               ELSE <<NEWLINE>> \o Spaces(indent * level))
           \o <<RBRACE>>

json_dumps(v, indent) == Encode(v, indent, 0)

(***************************************************************************)
(* re.search(r"\{.*\}", text, re.DOTALL): the leftmost start at which the  *)
(* pattern matches, and from it the longest match: .* takes everything and *)
(* gives back until a closing brace follows.  The result is <<>> when      *)
(* nothing matches, else <<first, last>>, the indices of match.group(0).   *)
(***************************************************************************)
MatchEnds(s, i) == {j \in (i + 1)..Len(s) : s[j] = RBRACE}

MatchStarts(s) == {i \in 1..Len(s) : s[i] = LBRACE /\ MatchEnds(s, i) # {}}

Min(S) == CHOOSE x \in S : \A y \in S : x <= y

Max(S) == CHOOSE x \in S : \A y \in S : x >= y

\* Mutant of GreedyEnd: the lazy pattern .*? stops at the first closing brace.
LazyEnd(s, i) == Min(MatchEnds(s, i))

GreedyEnd(s, i) == Max(MatchEnds(s, i))

ReSearch(s) ==
    IF MatchStarts(s) = {} THEN <<>>
    ELSE LET i == Min(MatchStarts(s)) IN <<i, GreedyEnd(s, i)>>

(***************************************************************************)
(* _extract_json_from_text: <<"ok", value>> or <<"ValueError", message>>.  *)
(***************************************************************************)
Ok(v) == <<"ok", v>>

EmptyResponse == <<"ValueError", "LLM returned empty response">>

CouldNotParse == <<"ValueError", "Could not parse JSON from LLM response">>

\* Lines 97-105: the brace-delimited fallback on the stripped text.
BraceFallback(t) ==
    LET match == ReSearch(t) IN
    IF match # <<>> /\ json_loads(SubSeq(t, match[1], match[2])).ok
    THEN Ok(json_loads(SubSeq(t, match[1], match[2])).val)
    ELSE CouldNotParse

\* Mutant of _extract_json_from_text: the brace-delimited block is tried before the
\* whole text.
ExtractBraceFirst(raw) ==
    LET t == Strip(raw) IN
    IF t = <<>> THEN EmptyResponse
    ELSE IF BraceFallback(t)[1] = "ok" THEN BraceFallback(t)
    ELSE IF json_loads(t).ok THEN Ok(json_loads(t).val)
    ELSE CouldNotParse

_extract_json_from_text(raw) ==
    LET t == Strip(raw) IN
    IF t = <<>> THEN EmptyResponse
    ELSE IF json_loads(t).ok THEN Ok(json_loads(t).val)
    ELSE BraceFallback(t)

(***************************************************************************)
(* extract_relevant_fields.  A JSON key that may be absent holds Missing   *)
(* or Some(value).  A fetched document is                                  *)
(*   [protein_name, genes, organism, comments]                             *)
(* where protein_name stands for the path proteinDescription /             *)
(* recommendedName / fullName / value, genes is a list of geneName values, *)
(* and a comment is [commentType, texts], texts a list of "value" entries. *)
(***************************************************************************)
Missing == <<"missing">>

Some(x) == <<"some", x>>

IsSome(m) == m[1] = "some"

\* dict.get(key, default)
GetOr(m, default) == IF IsSome(m) THEN m[2] ELSE default

\* sep.join(parts)
RECURSIVE Join(_, _)
Join(parts, sep) ==
    IF parts = <<>> THEN <<>>
    ELSE IF Len(parts) = 1 THEN parts[1]
    ELSE parts[1] \o sep \o Join(Tail(parts), sep)

\* Mutant of CollectTexts: the comment type is not tested.
RECURSIVE CollectAnyType(_, _)
CollectAnyType(comments, type) ==
    IF comments = <<>> THEN <<>>
    ELSE GetOr(Head(comments).texts, <<>>) \o CollectAnyType(Tail(comments), type)

\* Lines 42-48 for one comment type: the texts appended, in loop order.
\* An entry without "value" is kept as Missing and raises below.
RECURSIVE CollectTexts(_, _)
CollectTexts(comments, type) ==
    IF comments = <<>> THEN <<>>
    ELSE (IF Head(comments).commentType = Some(type)
          THEN GetOr(Head(comments).texts, <<>>)
          ELSE <<>>) \o CollectTexts(Tail(comments), type)

Values(entries) == [i \in 1..Len(entries) |-> entries[i][2]]

AllSome(entries) == \A i \in 1..Len(entries) : IsSome(entries[i])

KeyError == <<"KeyError">>

extract_relevant_fields(uniprot_json) ==
    LET genes == GetOr(uniprot_json.genes, <<>>)
        comments == GetOr(uniprot_json.comments, <<>>)
        function_texts == CollectTexts(comments, "FUNCTION")
        disease_texts == CollectTexts(comments, "DISEASE")
    IN
    IF /\ IsSome(uniprot_json.protein_name)
       /\ AllSome(genes)
       /\ IsSome(uniprot_json.organism)
       /\ AllSome(function_texts)
       /\ AllSome(disease_texts)
    THEN Ok([protein_name |-> uniprot_json.protein_name[2],
             gene_names |-> Values(genes),
             organism |-> uniprot_json.organism[2],
             function_text |-> Join(Values(function_texts), <<NEWLINE>>),
             disease_text |-> Join(Values(disease_texts), <<NEWLINE>>)])
    ELSE KeyError

(***************************************************************************)
(* The command line driver, cli (lines 177-221), with summarize_protein    *)
(* and its stages.                                                         *)
(***************************************************************************)
VARIABLES
    accessions,    \* the positional arguments, a sequence of accession strings
    out,           \* --out given
    compact,       \* --compact given
    pc,            \* the position of the run
    idx,           \* the position in accessions of the loop variable acc
    uniprot_json,  \* summarize_protein's local: the fetched document
    info,          \* summarize_protein's local: the extracted fields
    prompt,        \* summarize_protein's local: the rendered prompt
    results,       \* cli's dict from accession to summary
    trace,         \* the requests issued and the lines echoed, in order
    exit_status,   \* the status the process ends with
    stdout_doc,    \* the JSON document echoed at line 219 or 221
    file_doc,      \* the JSON document written to the --out file
    raw_text,      \* the reply handed to _extract_json_from_text
    origin,        \* the JSON value raw_text was serialized from, if any
    parse_result   \* what _extract_json_from_text returned or raised

vars == <<accessions, out, compact, pc, idx, uniprot_json, info, prompt,
          results, trace, exit_status, stdout_doc, file_doc, raw_text,
          origin, parse_result>>

MaxArgs == 3

Accs == {<<"A">>, <<"B">>}

ArgLists == UNION {[1..n -> Accs] : n \in 0..MaxArgs}

INDENT == 2

\* indent=None if compact else 2
IndentOf(c) == IF c THEN -1 ELSE INDENT

\* Documents the UniProt endpoint may return.
GoodDoc ==
    [protein_name |-> Some(<<"a">>),
     genes |-> Some(<<Some(<<"b">>)>>),
     organism |-> Some(<<"x">>),
     comments |-> Some(<<[commentType |-> Some("FUNCTION"),
                          texts |-> Some(<<Some(<<"a">>)>>)]>>)]

BadDoc == [GoodDoc EXCEPT !.protein_name = Missing]

Docs == {GoodDoc, BadDoc}

\* Replies the LLM endpoint may return in data["response"].
Replies ==
    { <<LBRACE, QUOTE, "a", QUOTE, COLON, SPACE, "1", RBRACE>>,
      <<"x", SPACE, LBRACE, RBRACE, NEWLINE>>,
      <<>>,
      <<"x", LBRACE, "x", RBRACE>> }

\* What _extract_json_from_text makes of each reply.
ReplyOutcome == [reply \in Replies |-> _extract_json_from_text(reply)]

Event(ev, p, acc, val) == [ev |-> ev, pos |-> p, acc |-> acc, val |-> val]

acc == accessions[idx]

Echo(ev, val) == trace' = Append(trace, Event(ev, idx, acc, val))

Echo2(ev1, ev2) ==
    trace' = trace \o <<Event(ev1, idx, acc, <<>>), Event(ev2, idx, acc, <<>>)>>

\* The for statement of line 198 taking its next element, or ending.
LoopNext ==
    IF idx < Len(accessions)
    THEN idx' = idx + 1 /\ pc' = "fetch"
    ELSE idx' = idx /\ pc' = "output"

\* summarize_protein's frame is left: its locals are gone.
LeaveFrame == uniprot_json' = Missing /\ info' = Missing /\ prompt' = Missing

\* Mutant of Except: the handler breaks out of the loop.
ExceptBreak(evs) ==
    /\ trace' = trace \o evs \o <<Event("ERROR", idx, acc, <<>>)>>
    /\ results' = results
    /\ LeaveFrame
    /\ idx' = idx
    /\ pc' = "output"

\* Mutant of Except: the handler stores an empty summary for the accession.
ExceptStore(evs) ==
    /\ trace' = trace \o evs \o <<Event("ERROR", idx, acc, <<>>)>>
    /\ results' = DictSet(results, acc, Obj(<<>>))
    /\ LeaveFrame
    /\ LoopNext

\* Mutant of Except: the handler runs the same accession again.
ExceptRetry(evs) ==
    /\ trace' = trace \o evs \o <<Event("ERROR", idx, acc, <<>>)>>
    /\ results' = results
    /\ LeaveFrame
    /\ idx' = idx
    /\ pc' = "fetch"

\* Lines 206-207: the exception is echoed with the accession, and the loop
\* goes on.  results is not assigned.
Except(evs) ==
    /\ trace' = trace \o evs \o <<Event("ERROR", idx, acc, <<>>)>>
    /\ results' = results
    /\ LeaveFrame
    /\ LoopNext

\* Mutant of CheckArgs: the test for an empty argument list is missing, and
\* the loop over no accessions falls through to the output.
CheckArgsUnguarded ==
    /\ pc = "start"
    /\ IF accessions = <<>>
       THEN pc' = "output" /\ idx' = idx
       ELSE pc' = "fetch" /\ idx' = 1
    /\ UNCHANGED <<accessions, out, compact, uniprot_json, info, prompt,
                   results, trace, exit_status, stdout_doc, file_doc,
                   raw_text, origin, parse_result>>

\* Lines 192-196.
CheckArgs ==
    /\ pc = "start"
    /\ IF accessions = <<>>
       THEN /\ trace' = Append(trace, Event("NOARGS", 0, <<>>, <<>>))
            /\ exit_status' = 1
            /\ pc' = "exited"
            /\ idx' = idx
       ELSE /\ trace' = trace
            /\ exit_status' = exit_status
            /\ pc' = "fetch"
            /\ idx' = 1
    /\ UNCHANGED <<accessions, out, compact, uniprot_json, info, prompt,
                   results, stdout_doc, file_doc, raw_text, origin,
                   parse_result>>

\* fetch_uniprot_entry: the GET is issued; the request or raise_for_status
\* raises, or the document is returned.
fetch_uniprot_entry ==
    /\ pc = "fetch"
    /\ \/ Except(<<Event("GET", idx, acc, <<>>)>>)
       \/ /\ \E d \in Docs : uniprot_json' = d
          /\ Echo2("GET", "FETCHED")
          /\ pc' = "extract"
          /\ UNCHANGED <<idx, info, prompt, results>>
    /\ UNCHANGED <<accessions, out, compact, exit_status, stdout_doc,
                   file_doc, raw_text, origin, parse_result>>

\* Line 148.
ExtractFields ==
    /\ pc = "extract"
    /\ LET r == extract_relevant_fields(uniprot_json) IN
       IF r[1] = "ok"
       THEN /\ info' = Some(r[2])
            /\ Echo("EXTRACTED", <<>>)
            /\ pc' = "prompt"
            /\ UNCHANGED <<idx, uniprot_json, prompt, results>>
       ELSE Except(<<>>)
    /\ UNCHANGED <<accessions, out, compact, exit_status, stdout_doc,
                   file_doc, raw_text, origin, parse_result>>

\* build_prompt: the template is opened and rendered with the context; a
\* missing or broken template raises.
build_prompt ==
    /\ pc = "prompt"
    /\ \/ Except(<<>>)
       \/ /\ prompt' = Some(<<acc, info[2]>>)
          /\ Echo("PROMPT", <<>>)
          /\ pc' = "llm"
          /\ UNCHANGED <<idx, uniprot_json, info, results>>
    /\ UNCHANGED <<accessions, out, compact, exit_status, stdout_doc,
                   file_doc, raw_text, origin, parse_result>>

\* call_llm and the assignment of line 200: the POST is issued; the request
\* or raise_for_status raises, or the reply is parsed and the summary stored.
call_llm ==
    /\ pc = "llm"
    /\ \/ Except(<<Event("POST", idx, acc, <<>>)>>)
       \/ \E reply \in Replies :
            LET r == ReplyOutcome[reply] IN
            IF r[1] = "ok"
            THEN /\ results' = DictSet(results, acc, r[2])
                 /\ trace' = trace \o <<Event("POST", idx, acc, <<>>),
                                        Event("STORED", idx, acc, r[2])>>
                 /\ LeaveFrame
                 /\ LoopNext
            ELSE Except(<<Event("POST", idx, acc, <<>>)>>)
    /\ UNCHANGED <<accessions, out, compact, exit_status, stdout_doc,
                   file_doc, raw_text, origin, parse_result>>

\* Mutant of FileDocument: a dict of one entry is unwrapped, as on stdout.
FileDocumentUnwrapped ==
    IF Len(results) = 1
    THEN json_dumps(results[1][2], IndentOf(compact))
    ELSE json_dumps(Obj(results), IndentOf(compact))

\* Mutant of StdoutDocument: the summary is unwrapped when one accession was
\* requested, not when one succeeded.
StdoutDocumentByRequest ==
    IF Len(accessions) = 1 /\ Len(results) = 1
    THEN json_dumps(results[1][2], IndentOf(compact))
    ELSE json_dumps(Obj(results), IndentOf(compact))

\* Lines 209-215: json.dump(results, f), indented unless compact.
FileDocument == json_dumps(Obj(results), IndentOf(compact))

\* Lines 217-221: a dict of one entry is echoed as that entry's summary.
StdoutDocument ==
    IF Len(results) = 1
    THEN json_dumps(results[1][2], IndentOf(compact))
    ELSE json_dumps(Obj(results), IndentOf(compact))

\* Lines 209-221, and the normal end of the process.
Output ==
    /\ pc = "output"
    /\ IF out
       THEN file_doc' = FileDocument /\ stdout_doc' = stdout_doc
       ELSE stdout_doc' = StdoutDocument /\ file_doc' = file_doc
    /\ exit_status' = 0
    /\ pc' = "exited"
    /\ UNCHANGED <<accessions, out, compact, idx, uniprot_json, info, prompt,
                   results, trace, raw_text, origin, parse_result>>

Init ==
    /\ accessions \in ArgLists
    /\ out \in BOOLEAN
    /\ compact \in BOOLEAN
    /\ pc = "start"
    /\ idx = 0
    /\ uniprot_json = Missing
    /\ info = Missing
    /\ prompt = Missing
    /\ results = <<>>
    /\ trace = <<>>
    /\ exit_status = 0
    /\ stdout_doc = <<>>
    /\ file_doc = <<>>
    /\ raw_text = <<>>
    /\ origin = Missing
    /\ parse_result = Missing

Next ==
    \/ CheckArgs
    \/ fetch_uniprot_entry
    \/ ExtractFields
    \/ build_prompt
    \/ call_llm
    \/ Output

Spec == Init /\ [][Next]_vars

(***************************************************************************)
(* _extract_json_from_text on its own: a reply is parsed.                  *)
(***************************************************************************)
MaxChunks == 4

\* The pieces replies are put together from.
Chunks ==
    { <<LBRACE>>, <<RBRACE>>, <<LBRACE, RBRACE>>,
      <<LBRACE, QUOTE, "a", QUOTE, COLON, "1", RBRACE>>,
      <<QUOTE, "a", QUOTE, COLON>>,
      <<QUOTE>>, <<"1">>, <<SPACE>>, <<NEWLINE>>, <<"x", SPACE>>, <<SPACE, "x">> }

RECURSIVE Concat(_)
Concat(parts) == IF parts = <<>> THEN <<>> ELSE Head(parts) \o Concat(Tail(parts))

ChunkTexts == {Concat(cs) : cs \in UNION {[1..n -> Chunks] : n \in 0..MaxChunks}}

\* JSON values whose serialization is parsed back.
JsonLeaves == {Num(1), Num(10), Str(<<>>), Str(<<LBRACE, RBRACE>>)}

JsonKeys == {<<"a">>, <<"b">>}

JsonObjects1 ==
    {Obj(<<>>)}
      \cup {Obj(<<<<k, v>>>>) : k \in JsonKeys, v \in JsonLeaves}
      \cup {Obj(<<<<<<"a">>, v>>, <<<<"b">>, w>>>>) : v \in JsonLeaves, w \in JsonLeaves}

JsonObjects2 ==
    {Obj(<<<<k, v>>>>) : k \in JsonKeys, v \in JsonObjects1}
      \cup {Obj(<<<<<<"b">>, v>>, <<<<"a">>, w>>>>) : v \in JsonLeaves, w \in JsonObjects1}

JsonValues == JsonLeaves \cup JsonObjects1 \cup JsonObjects2

InitParse ==
    /\ pc = "reply"
    /\ \/ /\ origin = Missing
          /\ compact = FALSE
          /\ raw_text \in ChunkTexts
       \/ /\ compact \in BOOLEAN
          /\ \E v \in JsonValues :
               /\ origin = Some(v)
               /\ raw_text = json_dumps(v, IndentOf(compact))
    /\ parse_result = Missing
    /\ accessions = <<>>
    /\ out = FALSE
    /\ idx = 0
    /\ uniprot_json = Missing
    /\ info = Missing
    /\ prompt = Missing
    /\ results = <<>>
    /\ trace = <<>>
    /\ exit_status = 0
    /\ stdout_doc = <<>>
    /\ file_doc = <<>>

\* Line 128: parsed = _extract_json_from_text(raw_text)
ParseReply ==
    /\ pc = "reply"
    /\ parse_result' = Some(_extract_json_from_text(raw_text))
    /\ pc' = "parsed"
    /\ UNCHANGED <<accessions, out, compact, idx, uniprot_json, info, prompt,
                   results, trace, exit_status, stdout_doc, file_doc,
                   raw_text, origin>>

NextParse == ParseReply

SpecParse == InitParse /\ [][NextParse]_vars

(***************************************************************************)
(* extract_relevant_fields on its own: a fetched document is extracted.    *)
(***************************************************************************)
MaxComments == 3

CommentTypes ==
    {Some("FUNCTION"), Some("DISEASE"), Some("INTERACTION"), Missing}

TextLists ==
    { Missing,
      Some(<<Some(<<"a">>)>>),
      Some(<<Some(<<"b">>), Some(<<>>)>>),
      Some(<<Missing>>) }

Comments == [commentType : CommentTypes, texts : TextLists]

CommentLists ==
    {Missing} \cup {Some(cs) : cs \in UNION {[1..n -> Comments] : n \in 0..MaxComments}}

Headers ==
    { [protein_name |-> Some(<<"a">>), genes |-> Some(<<Some(<<"b">>)>>),
       organism |-> Some(<<"x">>)],
      [protein_name |-> Missing, genes |-> Missing,
       organism |-> Some(<<"x">>)],
      [protein_name |-> Some(<<"a">>), genes |-> Some(<<Missing>>),
       organism |-> Some(<<"x">>)] }

ExtractDocs ==
    {[protein_name |-> h.protein_name, genes |-> h.genes,
      organism |-> h.organism, comments |-> cl] : h \in Headers, cl \in CommentLists}

InitExtract ==
    /\ pc = "document"
    /\ uniprot_json \in ExtractDocs
    /\ info = Missing
    /\ accessions = <<>>
    /\ out = FALSE
    /\ compact = FALSE
    /\ idx = 0
    /\ prompt = Missing
    /\ results = <<>>
    /\ trace = <<>>
    /\ exit_status = 0
    /\ stdout_doc = <<>>
    /\ file_doc = <<>>
    /\ raw_text = <<>>
    /\ origin = Missing
    /\ parse_result = Missing

\* Line 148: info = extract_relevant_fields(uniprot_json, accession)
ExtractDocument ==
    /\ pc = "document"
    /\ info' = Some(extract_relevant_fields(uniprot_json))
    /\ pc' = "extracted"
    /\ UNCHANGED <<accessions, out, compact, idx, uniprot_json, prompt,
                   results, trace, exit_status, stdout_doc, file_doc,
                   raw_text, origin, parse_result>>

NextExtract == ExtractDocument

SpecExtract == InitExtract /\ [][NextExtract]_vars

(***************************************************************************)
(* What a run did, read from the trace.                                    *)
(***************************************************************************)
Positions == 1..Len(accessions)

Happened(ev, p) == \E k \in 1..Len(trace) : trace[k].ev = ev /\ trace[k].pos = p

Count(ev, p) ==
    Cardinality({k \in 1..Len(trace) : trace[k].ev = ev /\ trace[k].pos = p})

Stored(p) == Happened("STORED", p)

Failed(p) == Happened("ERROR", p)

\* The accessions with a run that succeeded, and those with a run that failed.
SucceededAccs == {accessions[p] : p \in {q \in Positions : Stored(q)}}

FailedAccs == {accessions[p] : p \in {q \in Positions : Failed(q)}}

\* The summary the latest successful run of accession a returned.
LastSummary(a) ==
    LET ks == {k \in 1..Len(trace) : trace[k].ev = "STORED" /\ trace[k].acc = a}
    IN trace[Max(ks)].val

\* The first position at which accession a succeeded.
FirstSuccess(a) == Min({p \in Positions : Stored(p) /\ accessions[p] = a})

KeySet(d) == {d[i][1] : i \in 1..Len(d)}

\* The dict from each succeeded accession to its latest summary, decoded from
\* a JSON document.
IsMappingOfSummaries(document) ==
    LET r == json_loads(document) IN
    /\ r.ok
    /\ r.val[1] = "obj"
    /\ KeySet(r.val[2]) = SucceededAccs
    /\ \A a \in SucceededAccs : DictGet(r.val[2], a) = LastSummary(a)

IsBareSummary(document, a) ==
    LET r == json_loads(document) IN r.ok /\ r.val = LastSummary(a)

\* C1: for a non-empty argument list, whichever stage fails for whichever
\* accession, the run never stops short of the end: a run that is not over can
\* take a step, the pipeline of the next position starts after a position has
\* failed or succeeded, and at the end every position has had its GET and has
\* either stored a summary or logged an error, a document was put out, and the
\* exit status is 0.
C1_BatchNeverAborts ==
    accessions # <<>> =>
      /\ pc # "exited" => ENABLED Next
      /\ \A p \in Positions :
           (Failed(p) \/ Stored(p)) /\ p < Len(accessions) =>
             \/ Happened("GET", p + 1)
             \/ pc = "fetch" /\ idx = p + 1
      /\ pc = "exited" =>
           /\ exit_status = 0
           /\ \A p \in Positions :
                Count("GET", p) = 1 /\ (Failed(p) \/ Stored(p))
           /\ stdout_doc # <<>> \/ file_doc # <<>>

\* Three accessions: the first fails at the fetch, the second at the LLM call
\* or the parse, the third succeeds, and the run has ended with status 0.
C1_Witness ==
    /\ pc = "exited"
    /\ Len(accessions) = 3
    /\ Failed(1) /\ ~Happened("FETCHED", 1)
    /\ Failed(2) /\ Happened("POST", 2)
    /\ Stored(3)
    /\ exit_status = 0

\* C2 as stated: at the output step an accession one of whose runs failed has
\* no entry in the result mapping.
C2_FailedAccessionExcluded ==
    pc \in {"output", "exited"} =>
      \A a \in FailedAccs : ~DictHas(results, a)

\* C2 amended: every failed run is logged with the accession of its position
\* and stores nothing, so the result mapping holds an entry for exactly the
\* accessions with at least one successful run: an accession is excluded if
\* and only if none of its runs succeeded.
C2_ExcludedIffNoRunSucceeded ==
    /\ \A k \in 1..Len(trace) :
         trace[k].ev = "ERROR" =>
           /\ trace[k].acc = accessions[trace[k].pos]
           /\ ~Stored(trace[k].pos)
    /\ \A p \in Positions : p < idx \/ pc \in {"output", "exited"} =>
         Failed(p) \/ Stored(p)
    /\ KeySet(results) = SucceededAccs
    /\ \A a \in FailedAccs \ SucceededAccs : ~DictHas(results, a)

\* [A, B] with A failing and B succeeding: the mapping holds B's entry only.
\* And [A, A] with one run failing and the other succeeding: A has an entry.
C2_Witness ==
    /\ pc = "exited"
    /\ Len(accessions) = 2
    /\ accessions[1] # accessions[2]
    /\ Failed(1) /\ Stored(2)
    /\ KeySet(results) = {accessions[2]}

C2_WitnessRepeated ==
    /\ pc = "exited"
    /\ Len(accessions) = 2
    /\ accessions[1] = accessions[2]
    /\ Stored(1) /\ Failed(2)
    /\ DictHas(results, accessions[2])

\* C3: with no output file, the document on standard output decodes to the
\* bare summary when exactly one accession (one identifier, however often it
\* was named) succeeded, and to the mapping from every succeeded accession to
\* its summary when two or more succeeded, however many were requested or
\* failed.
C3_StdoutShape ==
    pc = "exited" /\ accessions # <<>> /\ ~out =>
      /\ file_doc = <<>>
      /\ Cardinality(SucceededAccs) = 1 =>
           \A a \in SucceededAccs : IsBareSummary(stdout_doc, a)
      /\ Cardinality(SucceededAccs) >= 2 => IsMappingOfSummaries(stdout_doc)

\* Three accessions requested, one failed, the two others succeeded: the
\* mapping is printed.  And two requested, one failed: the bare summary.
C3_Witness ==
    /\ pc = "exited" /\ ~out
    /\ Len(accessions) = 3
    /\ Cardinality(FailedAccs) = 1
    /\ Cardinality(SucceededAccs) = 2
    /\ IsMappingOfSummaries(stdout_doc)

C3_WitnessBare ==
    /\ pc = "exited" /\ ~out
    /\ Len(accessions) = 2
    /\ Failed(1) /\ Stored(2)
    /\ IsBareSummary(stdout_doc, accessions[2])

\* C4 as stated: when exactly one accession was requested (and succeeded), the
\* document written to the output file is the single summary object.
C4_FileBareForOneRequest ==
    pc = "exited" /\ out /\ Len(accessions) = 1 /\ Stored(1) =>
      IsBareSummary(file_doc, accessions[1])

\* C4 amended: the document written to the output file always decodes to the
\* mapping from accession to summary, a one-entry mapping when exactly one
\* accession was requested, with and without the compact flag; nothing is
\* unwrapped and no result document goes to standard output.
C4_FileAlwaysMapping ==
    pc = "exited" /\ out /\ accessions # <<>> =>
      /\ IsMappingOfSummaries(file_doc)
      /\ stdout_doc = <<>>
      /\ (compact => \A i \in 1..Len(file_doc) : file_doc[i] # NEWLINE)

\* One accession requested, it succeeded, the file holds a one-entry mapping
\* whose value is the summary, indented.
C4_Witness ==
    /\ pc = "exited" /\ out /\ ~compact
    /\ Len(accessions) = 1 /\ Stored(1)
    /\ IsMappingOfSummaries(file_doc)
    /\ ~IsBareSummary(file_doc, accessions[1])
    /\ \E i \in 1..Len(file_doc) : file_doc[i] = NEWLINE

\* C5: with zero accessions the run prints the diagnostic and exits with
\* status 1 having issued no GET and no POST and put out no result document;
\* and a non-zero status occurs with zero accessions only.
C5_ZeroAccessionsOnlyFatal ==
    /\ accessions = <<>> =>
         /\ \A k \in 1..Len(trace) : trace[k].ev = "NOARGS"
         /\ stdout_doc = <<>> /\ file_doc = <<>>
         /\ pc \in {"start", "exited"}
         /\ pc = "exited" => exit_status = 1 /\ Len(trace) = 1
    /\ exit_status # 0 => accessions = <<>>

C5_Witness ==
    /\ accessions = <<>>
    /\ pc = "exited"
    /\ exit_status = 1
    /\ trace = <<Event("NOARGS", 0, <<>>, <<>>)>>

\* C9: per position at most one GET and at most one POST; a POST directly
\* follows the GET, the fetched document, the extraction and the prompt of its
\* position, in that order, which are all that has happened at that position;
\* nothing of a position happens after its error or its stored summary; and a
\* GET is the very first event or directly follows the stored summary or the
\* logged error of the position before.
C9_SequentialNoRetry ==
    /\ \A p \in Positions : Count("GET", p) <= 1 /\ Count("POST", p) <= 1
    /\ \A k \in 1..Len(trace) :
         trace[k].ev = "POST" =>
           /\ k >= 5
           /\ trace[k - 4].ev = "GET" /\ trace[k - 3].ev = "FETCHED"
           /\ trace[k - 2].ev = "EXTRACTED" /\ trace[k - 1].ev = "PROMPT"
           /\ \A m \in (k - 4)..k : trace[m].pos = trace[k].pos
           /\ \A m \in 1..(k - 5) : trace[m].pos # trace[k].pos
    /\ \A k \in 1..Len(trace) :
         trace[k].ev \in {"ERROR", "STORED"} =>
           \A m \in (k + 1)..Len(trace) : trace[m].pos # trace[k].pos
    /\ \A k \in 1..Len(trace) :
         trace[k].ev = "GET" =>
           IF k = 1 THEN trace[k].pos = 1
           ELSE /\ trace[k - 1].pos = trace[k].pos - 1
                /\ trace[k - 1].ev \in {"ERROR", "STORED"}

\* The same accession twice: its first run fails after its POST, its second
\* run is fetched afresh and succeeds.
C9_Witness ==
    /\ pc = "exited"
    /\ Len(accessions) = 3
    /\ accessions[1] = accessions[2]
    /\ Failed(1) /\ Happened("POST", 1)
    /\ Stored(2)
    /\ Failed(3) /\ ~Happened("POST", 3) /\ Happened("FETCHED", 3)

\* C10 as stated: in every step an entry already in the mapping stays where
\* it is with its summary unchanged, and the mapping grows by at most one.
C10_AppendOnly ==
    [][/\ Len(results') <= Len(results) + 1
       /\ \A i \in 1..Len(results) :
            i <= Len(results') /\ results'[i] = results[i]]_vars

\* C10 amended: in every step the keys already in the mapping stay at their
\* positions and the mapping grows by at most one entry; a summary already in
\* the mapping changes only when a later run of the same accession succeeds,
\* which replaces it in place; the keys are in the order of each accession's
\* first successful run, each with the summary of its latest successful run.
C10_KeysAppendOnly ==
    /\ [][/\ Len(results') <= Len(results) + 1
          /\ \A i \in 1..Len(results) :
               /\ i <= Len(results')
               /\ results'[i][1] = results[i][1]
               /\ results'[i][2] # results[i][2] =>
                    /\ pc = "llm"
                    /\ results[i][1] = acc
                    /\ Len(results') = Len(results)
                    /\ trace'[Len(trace')] =
                         Event("STORED", idx, acc, results'[i][2])]_vars
    /\ [](/\ KeySet(results) = SucceededAccs
          /\ \A i \in 1..Len(results) :
               /\ results[i][2] = LastSummary(results[i][1])
               /\ \A j \in 1..Len(results) :
                    i < j => FirstSuccess(results[i][1]) < FirstSuccess(results[j][1]))

\* [A, B, A], all three succeed, the third with another summary than the
\* first: A's entry is still first and holds the third run's summary.
C10_Witness ==
    /\ pc = "exited"
    /\ Len(accessions) = 3
    /\ accessions[1] = accessions[3] /\ accessions[1] # accessions[2]
    /\ Stored(1) /\ Stored(2) /\ Stored(3)
    /\ DictKeys(results) = <<accessions[1], accessions[2]>>
    /\ \E k \in 1..Len(trace) :
         /\ trace[k].ev = "STORED" /\ trace[k].pos = 1
         /\ trace[k].val # results[1][2]

(***************************************************************************)
(* The response parser.                                                    *)
(***************************************************************************)
Stripped == Strip(raw_text)

\* The one substring of t from its first opening brace to its last closing
\* brace; <<>> if t has no opening brace followed by a closing brace.
FirstToLast(t) ==
    LET opens == {i \in 1..Len(t) : t[i] = LBRACE}
        closes == {i \in 1..Len(t) : t[i] = RBRACE}
    IN IF opens # {} /\ closes # {} /\ Min(opens) < Max(closes)
       THEN SubSeq(t, Min(opens), Max(closes))
       ELSE <<>>

\* C6: whenever the stripped reply is valid JSON as a whole, the parser
\* returns the value of the whole text, whatever the brace fallback would
\* make of it; and a reply that is the serialization of a JSON value, indented
\* or not, parses to that value.
C6_DirectParseFirst ==
    pc = "parsed" =>
      /\ json_loads(Stripped).ok => parse_result[2] = Ok(json_loads(Stripped).val)
      /\ IsSome(origin) => parse_result[2] = Ok(origin[2])

\* A serialized value is parsed back to itself although a brace-delimited
\* block inside it decodes to something else.
C6_Witness ==
    /\ pc = "parsed"
    /\ IsSome(origin)
    /\ parse_result[2] = Ok(origin[2])
    /\ json_loads(FirstToLast(Stripped)).ok
    /\ json_loads(FirstToLast(Stripped)).val # origin[2]

\* An indented object with a nested object is parsed back to itself.
C6_WitnessNested ==
    /\ pc = "parsed"
    /\ IsSome(origin) /\ ~compact
    /\ origin[2][1] = "obj"
    /\ \E i \in 1..Len(origin[2][2]) :
         origin[2][2][i][2][1] = "obj" /\ origin[2][2][i][2][2] # <<>>
    /\ parse_result[2] = Ok(origin[2])

\* C7: when the stripped reply is not valid JSON as a whole, the result is
\* the value of the substring from the first opening brace to the last
\* closing brace if that substring decodes, and otherwise a ValueError: also
\* for an empty or whitespace-only reply, a reply with no such substring, and
\* a reply in which a shorter brace-delimited block would decode.
C7_GreedyFallbackOnly ==
    pc = "parsed" /\ ~json_loads(Stripped).ok =>
      IF FirstToLast(Stripped) # <<>> /\ json_loads(FirstToLast(Stripped)).ok
      THEN parse_result[2] = Ok(json_loads(FirstToLast(Stripped)).val)
      ELSE parse_result[2][1] = "ValueError"

\* The parse fails although a shorter brace-delimited block of the reply is
\* valid JSON.
C7_Witness ==
    /\ pc = "parsed"
    /\ parse_result[2][1] = "ValueError"
    /\ \E i, j \in 1..Len(raw_text) :
         /\ i < j
         /\ raw_text[i] = LBRACE /\ raw_text[j] = RBRACE
         /\ json_loads(SubSeq(raw_text, i, j)).ok

\* preamble {"a":1} trailing
C7_WitnessProse ==
    /\ pc = "parsed"
    /\ raw_text = <<"x", SPACE, LBRACE, QUOTE, "a", QUOTE, COLON, "1", RBRACE, SPACE, "x">>
    /\ parse_result[2] = Ok(Obj(<<<<<<"a">>, Num(1)>>>>))

\* A whitespace-only reply fails.
C7_WitnessBlank ==
    /\ pc = "parsed"
    /\ raw_text = <<SPACE, NEWLINE>>
    /\ parse_result[2][1] = "ValueError"

(***************************************************************************)
(* The field extractor.                                                    *)
(***************************************************************************)
\* text.split("\n")
RECURSIVE SplitLines(_, _)
SplitLines(t, line) ==
    IF t = <<>> THEN <<line>>
    ELSE IF Head(t) = NEWLINE THEN <<line>> \o SplitLines(Tail(t), <<>>)
    ELSE SplitLines(Tail(t), Append(line, Head(t)))

\* The comments of the document, and the indices of those tagged type.
DocComments == GetOr(uniprot_json.comments, <<>>)

TextsAt(i) == GetOr(DocComments[i].texts, <<>>)

Tagged(type) == {i \in 1..Len(DocComments) : DocComments[i].commentType = Some(type)}

\* The number of text entries of the comments tagged type before comment i.
RECURSIVE EntriesBefore(_, _)
EntriesBefore(type, i) ==
    IF i <= 1 THEN 0
    ELSE EntriesBefore(type, i - 1)
           + (IF (i - 1) \in Tagged(type) THEN Len(TextsAt(i - 1)) ELSE 0)

\* The k-th text entry, in source order, among the comments tagged type.
EntryInOrder(type, k) ==
    LET i == CHOOSE c \in Tagged(type) :
               EntriesBefore(type, c) < k /\ k <= EntriesBefore(type, c) + Len(TextsAt(c))
    IN TextsAt(i)[k - EntriesBefore(type, i)][2]

EntriesInOrder(type) ==
    [k \in 1..EntriesBefore(type, Len(DocComments) + 1) |-> EntryInOrder(type, k)]

IsJoinOf(t, entries) ==
    IF entries = <<>> THEN t = <<>> ELSE SplitLines(t, <<>>) = entries

\* C8: when the extraction returns, the function text is the text entries of
\* the FUNCTION comments in source order separated by newlines, the disease
\* text the same over the DISEASE comments; comments of another type or with
\* no type contribute nothing, and with no comments both texts are empty.
C8_CommentConcatenation ==
    pc = "extracted" /\ info[2][1] = "ok" =>
      /\ IsJoinOf(info[2][2].function_text, EntriesInOrder("FUNCTION"))
      /\ IsJoinOf(info[2][2].disease_text, EntriesInOrder("DISEASE"))
      /\ DocComments = <<>> =>
           info[2][2].function_text = <<>> /\ info[2][2].disease_text = <<>>

\* Two FUNCTION comments around a comment with texts but no type tag: the
\* function text holds the entries of the two, three lines in all, and the
\* disease text is empty.
C8_Witness ==
    /\ pc = "extracted" /\ info[2][1] = "ok"
    /\ Len(DocComments) = 3
    /\ Tagged("FUNCTION") = {1, 3}
    /\ DocComments[2].commentType = Missing
    /\ Len(TextsAt(1)) = 2 /\ Len(TextsAt(2)) = 1 /\ Len(TextsAt(3)) = 1
    /\ info[2][2].function_text = <<"b", NEWLINE, NEWLINE, "a">>
    /\ info[2][2].disease_text = <<>>

=============================================================================
